---------------------------- MODULE Spec2Model ----------------------------
(***************************************************************************)
(* loopdev: LoopControl / LoopDevice / AttachOptions (src/src/lib.rs) as a  *)
(* state machine.  Every system call the library makes is one step of the  *)
(* calling process, so that calls of different processes interleave the    *)
(* way they do against one kernel.  The kernel's loop driver is the         *)
(* environment: its answer to each ioctl is drawn from the outcomes the     *)
(* driver can produce in the device's current state (the K_ operators).     *)
(* The build modelled is the non-android one (LOOP_PREFIX = "/dev/loop").   *)
(***************************************************************************)
EXTENDS Integers, Sequences, FiniteSets, TLC

\* ------------------------------------------------------------ bounds
\* Highest loop device index the kernel hands out (devices 0..MaxDev exist).
MaxDev == 1
\* Size in bytes of every backing file: a larger offset or size limit overflows it.
FileSize == 1
\* The turns of the attach loop (Retries::new(10, ..) in the tests).
MaxTries == 2

\* ------------------------------------------------------- program constants
LOOP_CONTROL == "/dev/loop-control"
LOOP_PREFIX == "/dev/loop"
\* <linux/loop.h>, bound into the crate by build.rs
LO_FLAGS_READ_ONLY == 1
LO_FLAGS_AUTOCLEAR == 4
LO_FLAGS_PARTSCAN == 8
LO_FLAGS_DIRECT_IO == 16

\* --------------------------------------------------------------- u32 flags
\* A u32 is the set of its set bit positions: | is \cup, & is \cap, ! is the
\* complement in 0..31.
AllBits == 0..31

Pow2(n) == 2 ^ n

\* The bits of a small non-negative literal.
Bits(n) == {i \in 0..30 : (n \div Pow2(i)) % 2 = 1}

\* 1 << n
Shl1(n) == {n}

\* u32::max_value() - x: all ones minus x never borrows, it clears x's bits.
MaxMinus(x) == AllBits \ x

BitNot(x) == AllBits \ x

\* --------------------------------------------------------------- universe
Procs == {"a", "b"}
Devs == 0..MaxDev
\* Backing files: "plain" holds no partition table, "parted" one partition.
Files == {"plain", "parted"}
NoFile == "nofile"
\* A path that names no file, and a descriptor that is not open.
Missing == "missing"
BadFd == "badfd"
\* Offsets and size limits a caller passes: none, inside the file, beyond its end.
Offsets == {0, FileSize, FileSize + 1}

\* Number of partitions in the partition table of a backing file.
PartsIn(f) == IF f = "parted" THEN 1 ELSE 0

\* Mutant: the path is formatted from the index after the one returned.
FormatPath_next(n) == LOOP_PREFIX \o ToString(n + 1)

\* format!("{}{}", LOOP_PREFIX, dev_num)
FormatPath(n) == LOOP_PREFIX \o ToString(n)

\* The kernel's device nodes, /dev/loop<minor>, and a path with no node behind it.
NodePath(d) == "/dev/loop" \o ToString(d)
NoSuchPath == "/dev/loopX"
DevPaths == {NodePath(d) : d \in Devs}

\* fn ioctl_to_error(ret): Err(last_os_error()) when ret < 0, else Ok(ret).
\* last_os_error() reads the calling thread's errno at the time of the call.
Ok(v) == [ok |-> TRUE, v |-> v, err |-> ""]
Err(e) == [ok |-> FALSE, v |-> -1, err |-> e]

\* Mutant: every return value but 0 is taken for a failure.
ioctl_to_error_nonzero(ret, e) == IF ret # 0 THEN Err(e) ELSE Ok(ret)

\* Mutant: a negative return value is passed on as a result.
ioctl_to_error_unchecked(ret, e) == Ok(ret)

ioctl_to_error(ret, e) == IF ret < 0 THEN Err(e) ELSE Ok(ret)

\* No call has returned yet.
NoResult == [ok |-> FALSE, v |-> -1, err |-> "pending"]

\* ------------------------------------------------------ kernel loop driver
\* State of one loop device in the kernel.
Unbound == [st |-> "unbound", file |-> NoFile, lo_offset |-> 0,
            lo_sizelimit |-> 0, lo_flags |-> {}, nparts |-> 0]

\* An index with no device node (none was created for it).
Absent == [Unbound EXCEPT !.st = "absent"]

Settable == Bits(LO_FLAGS_AUTOCLEAR) \cup Bits(LO_FLAGS_PARTSCAN)
Clearable == Bits(LO_FLAGS_AUTOCLEAR)

\* An outcome of a system call: return value, errno left behind, new device state.
Out(ret, e, nd) == [ret |-> ret, err |-> e, nd |-> nd]

\* LOOP_CTL_GET_FREE: the first device that is not bound, or no device left.
FreeDevs(dv) == {d \in Devs : dv[d].st = "unbound"}

Lowest(S) == CHOOSE d \in S : \A e \in S : d <= e

K_GetFree(dv) ==
    IF FreeDevs(dv) = {} THEN {[ret |-> -1, err |-> "ENOSPC"]}
    ELSE {[ret |-> Lowest(FreeDevs(dv)), err |-> ""]}

\* open(2) of a device path.
K_Open(dv, path) ==
    IF path \notin DevPaths THEN {[ret |-> -1, err |-> "ENOENT"]}
    ELSE LET d == CHOOSE x \in Devs : NodePath(x) = path
         IN IF dv[d].st = "absent" THEN {[ret |-> -1, err |-> "ENOENT"]}
            ELSE IF dv[d].st = "rundown" THEN {[ret |-> -1, err |-> "ENXIO"]}
            ELSE {[ret |-> d, err |-> ""]}

\* LOOP_CTL_ADD of index n: the kernel creates the device, unless it exists.
K_Add(s, n) ==
    IF s.st = "absent" THEN {Out(n, "", Unbound)} ELSE {Out(-1, "EEXIST", s)}

\* LOOP_SET_FD
K_SetFd(s, f) ==
    IF f \notin Files THEN {Out(-1, "EBADF", s)}
    ELSE IF s.st # "unbound" THEN {Out(-1, "EBUSY", s)}
    ELSE {Out(0, "", [Unbound EXCEPT !.st = "bound", !.file = f])}

\* The flags LOOP_SET_STATUS64 leaves in the device.
StatusFlags(prev, new) ==
    ((new \cap Settable) \cup (prev \ Settable)) \cup (prev \ Clearable)

\* LOOP_SET_STATUS64: the kernel takes the record or fails for a reason of its own
\* (EAGAIN while the page cache of the device is busy), whatever the record holds.
K_SetStatus(s, info) ==
    IF s.st # "bound" THEN {Out(-1, "ENXIO", s)}
    ELSE LET fl == StatusFlags(s.lo_flags, info.lo_flags)
         IN {Out(0, "", [s EXCEPT !.lo_offset = info.lo_offset,
                                  !.lo_sizelimit = info.lo_sizelimit,
                                  !.lo_flags = fl,
                                  !.nparts = IF Bits(LO_FLAGS_PARTSCAN) \subseteq fl
                                             THEN PartsIn(s.file) ELSE 0]),
             Out(-1, "EAGAIN", s)}

\* LOOP_CLR_FD with `refs` open references to the device: with other openers the
\* kernel refuses (EBUSY) or defers the teardown to the last close (autoclear);
\* alone it tears down at once or defers likewise.
K_ClrFd(s, refs) ==
    IF s.st # "bound" THEN {Out(-1, "ENXIO", s)}
    ELSE LET deferred == Out(0, "", [s EXCEPT !.lo_flags = @ \cup Bits(LO_FLAGS_AUTOCLEAR)])
         IN IF refs > 1 THEN {deferred, Out(-1, "EBUSY", s)}
            ELSE {deferred, Out(0, "", Unbound)}

\* LOOP_SET_CAPACITY
K_SetCapacity(s) ==
    IF s.st # "bound" THEN {Out(-1, "ENXIO", s)} ELSE {Out(0, "", s)}

\* LOOP_SET_DIRECT_IO: the backing file may not support it.  (The I/O mode it
\* switches is not part of the device state modelled.)
K_SetDirectIo(s, on) ==
    IF s.st # "bound" THEN {Out(-1, "ENXIO", s)}
    ELSE {Out(0, "", s), Out(-1, "EINVAL", s)}

\* close(2) of a device handle leaving `refs` references.
K_Release(s, refs) ==
    IF refs = 0 /\ s.st = "bound" /\ Bits(LO_FLAGS_AUTOCLEAR) \subseteq s.lo_flags
    THEN [Unbound EXCEPT !.st = "rundown"]
    ELSE s

\* ----------------------------------------------------------- AttachOptions
\* loop_info64 { ..Default::default() }: the fields the library ever sets.
DefaultInfo == [lo_offset |-> 0, lo_sizelimit |-> 0, lo_flags |-> {}]

\* LoopDevice::with
with == [info |-> DefaultInfo, direct_io |-> FALSE]

\* Mutant: the offset is stored in the size-limit field.
offset_as_sizelimit(o, n) == [o EXCEPT !.info.lo_sizelimit = n]

offset(o, n) == [o EXCEPT !.info.lo_offset = n]

size_limit(o, n) == [o EXCEPT !.info.lo_sizelimit = n]

read_only(o, b) ==
    IF b THEN [o EXCEPT !.info.lo_flags = @ \cup Bits(LO_FLAGS_READ_ONLY)]
    ELSE [o EXCEPT !.info.lo_flags = @ \cap BitNot(Bits(LO_FLAGS_READ_ONLY))]

\* Mutant: autoclear touches the read-only bit.
autoclear_as_read_only(o, b) ==
    IF b THEN [o EXCEPT !.info.lo_flags = @ \cup Bits(LO_FLAGS_READ_ONLY)]
    ELSE [o EXCEPT !.info.lo_flags = @ \cap BitNot(Bits(LO_FLAGS_READ_ONLY))]

autoclear(o, b) ==
    IF b THEN [o EXCEPT !.info.lo_flags = @ \cup Bits(LO_FLAGS_AUTOCLEAR)]
    ELSE [o EXCEPT !.info.lo_flags = @ \cap BitNot(Bits(LO_FLAGS_AUTOCLEAR))]

set_direct_io(o, b) == [o EXCEPT !.direct_io = b]

part_scan(o, b) ==
    IF b THEN [o EXCEPT !.info.lo_flags = @ \cup Shl1(4)]
    ELSE [o EXCEPT !.info.lo_flags = @ \cap MaxMinus(Shl1(4))]

\* ------------------------------------------------------------------ state
VARIABLES
    dev,    \* kernel: the state of every loop device
    ext,    \* kernel: per device, references held outside the library (a mount, udev)
    ctl,    \* per process: its LoopControl is open
    h,      \* per process: the device its LoopDevice is open on ({} = none)
    pc,     \* per process: where it stands inside a library call
    op,     \* per process: the library call in progress or last returned
    opts,   \* per process: the AttachOptions of its builder
    given,  \* per process: the last argument given to each setter of that builder
    bf,     \* per process: the backing file (or fd) of its attach
    num,    \* per process: dev_num inside next_free
    log,    \* per process: the system calls of that call, in order
    res,    \* per process: what the call returned (NoResult while it runs)
    hst,    \* per process: where it stands in next_attach_retried ("off": not in it)
    retries,\* per process: Retries.retries of the attach loop
    lost,   \* per process: the indices its attach found busy, in order
    tried,  \* per process: the items Retries yielded and how each turn ended
    cli     \* the losetup process: its subcommand, how far it is, how it ended

pvars == <<ctl, h, pc, op, opts, given, bf, num, log, res>>
hvars == <<hst, retries, lost, tried>>
vars == <<dev, ext, ctl, h, pc, op, opts, given, bf, num, log, res, hst, retries, lost, tried, cli>>

\* The device a process's handle is open on.
DevOf(p) == CHOOSE d \in Devs : d \in h[p]

\* Open references to device d.
Refs(d) == Cardinality({p \in Procs : d \in h[p]}) + ext[d]

\* LoopDevice::path: the link behind the handle's descriptor.
path(p) == NodePath(DevOf(p))

\* What a caller asked of a builder on which it called no setter.
NoneGiven == [offset |-> 0, size_limit |-> 0, read_only |-> FALSE, autoclear |-> FALSE,
              part_scan |-> FALSE, direct_io |-> FALSE]

\* The devices a listing shows with a backing file.
Attached(dv) == {d \in Devs : dv[d].st \notin {"unbound", "absent"}}

\* One system call as the process saw it, with the device's state around it.
Sys(call, d, o, pre, post) ==
    [call |-> call, dev |-> d, ret |-> o.ret, err |-> o.err, pre |-> pre, post |-> post]

InitCallers ==
    /\ ext = [d \in Devs |-> 0]
    /\ ctl = [p \in Procs |-> FALSE]
    /\ h = [p \in Procs |-> {}]
    /\ pc = [p \in Procs |-> "idle"]
    /\ op = [p \in Procs |-> "none"]
    /\ opts = [p \in Procs |-> with]
    /\ given = [p \in Procs |-> NoneGiven]
    /\ bf = [p \in Procs |-> NoFile]
    /\ num = [p \in Procs |-> 0]
    /\ log = [p \in Procs |-> <<>>]
    /\ res = [p \in Procs |-> NoResult]

\* No losetup process runs.
CliOff == [st |-> "off", cmd |-> "none", stage |-> "none", code |-> -1,
           result |-> NoResult, stderr |-> ""]

\* Every device exists and none is bound.
InitLib ==
    /\ dev = [d \in Devs |-> Unbound]
    /\ InitCallers

Init ==
    /\ InitLib
    /\ cli = CliOff
    /\ hst = [p \in Procs |-> "off"]
    /\ retries = [p \in Procs |-> 0]
    /\ lost = [p \in Procs |-> <<>>]
    /\ tried = [p \in Procs |-> <<>>]

\* A call of process p begins / returns.
Begin(p, name) == op' = [op EXCEPT ![p] = name]

Return(p, r) == /\ pc' = [pc EXCEPT ![p] = "ret"]
                /\ res' = [res EXCEPT ![p] = r]

Goto(p, l) == /\ pc' = [pc EXCEPT ![p] = l]
              /\ res' = [res EXCEPT ![p] = NoResult]

\* ------------------------------------------------------------ LoopControl
\* LoopControl::open: the open may be refused (it needs privilege).
LoopControl_open(p) ==
    /\ pc[p] = "idle" /\ ~ctl[p]
    /\ Begin(p, "LoopControl::open")
    /\ \E o \in {[ret |-> 0, err |-> ""], [ret |-> -1, err |-> "EACCES"]} :
          /\ log' = [log EXCEPT ![p] = <<Sys("open", -1, o, Unbound, Unbound)>>]
          /\ ctl' = [ctl EXCEPT ![p] = o.ret >= 0]
          /\ Return(p, ioctl_to_error(o.ret, o.err))
    /\ UNCHANGED <<ext, hvars, cli, dev, h, opts, given, bf, num>>

\* LoopControl::next_free, the LOOP_CTL_GET_FREE ioctl.
next_free(p) ==
    /\ pc[p] = "idle" /\ ctl[p] /\ h[p] = {}
    /\ Begin(p, "next_free")
    /\ \E o \in K_GetFree(dev) :
          LET r == ioctl_to_error(o.ret, o.err)
              s == IF o.ret \in Devs THEN dev[o.ret] ELSE Unbound
          IN /\ log' = [log EXCEPT ![p] =
                          <<[call |-> "LOOP_CTL_GET_FREE", dev |-> o.ret, ret |-> o.ret,
                             err |-> o.err, pre |-> s, post |-> s, att |-> Attached(dev)]>>]
             /\ IF r.ok
                THEN Goto(p, "nf_open") /\ num' = [num EXCEPT ![p] = r.v]
                ELSE Return(p, r) /\ num' = num
    /\ UNCHANGED <<ext, hvars, cli, ctl, dev, h, opts, given, bf>>

\* LoopControl::add(n), the LOOP_CTL_ADD ioctl.
LoopControl_add(p, n) ==
    /\ pc[p] = "idle" /\ ctl[p] /\ h[p] = {}
    /\ Begin(p, "add")
    /\ \E o \in K_Add(dev[n], n) :
          LET r == ioctl_to_error(o.ret, o.err)
          IN /\ dev' = [dev EXCEPT ![n] = o.nd]
             /\ log' = [log EXCEPT ![p] = <<Sys("LOOP_CTL_ADD", n, o, dev[n], o.nd)>>]
             /\ IF r.ok
                THEN Goto(p, "nf_open") /\ num' = [num EXCEPT ![p] = r.v]
                ELSE Return(p, r) /\ num' = num
    /\ UNCHANGED <<ext, hvars, cli, ctl, h, opts, given, bf>>

\* LoopDevice::open(dev) called by p with `lg` the system calls made before it:
\* the returned handle is open on the device the path names.
Open(p, pth, lg) ==
    \E o \in K_Open(dev, pth) :
       /\ log' = [log EXCEPT ![p] = Append(lg, Sys("open", o.ret, o, Unbound, Unbound))]
       /\ h' = [h EXCEPT ![p] = IF o.ret >= 0 THEN {o.ret} ELSE {}]
       /\ Return(p, ioctl_to_error(o.ret, o.err))

\* LoopControl::next_free, LoopDevice::open of the formatted path.
next_free_open(p) ==
    /\ pc[p] = "nf_open"
    /\ Open(p, FormatPath(num[p]), log[p])
    /\ num' = [num EXCEPT ![p] = 0]
    /\ UNCHANGED <<ext, hvars, cli, ctl, dev, op, opts, given, bf>>

\* ------------------------------------------------------------- LoopDevice
\* LoopDevice::open
LoopDevice_open(p, pth) ==
    /\ pc[p] = "idle" /\ h[p] = {}
    /\ Begin(p, "open")
    /\ Open(p, pth, <<>>)
    /\ UNCHANGED <<ext, hvars, cli, ctl, dev, opts, given, bf, num>>

\* One ioctl on p's device: the kernel's outcome o, the device updated, the call logged.
Ioctl(p, call, o) ==
    /\ dev' = [dev EXCEPT ![DevOf(p)] = o.nd]
    /\ log' = [log EXCEPT ![p] = Append(@, Sys(call, DevOf(p), o, dev[DevOf(p)], o.nd))]

\* LoopDevice::with
LoopDevice_with(p) ==
    /\ pc[p] = "idle" /\ h[p] # {}
    /\ pc' = [pc EXCEPT ![p] = "with"]
    /\ opts' = [opts EXCEPT ![p] = with]
    /\ given' = [given EXCEPT ![p] = NoneGiven]
    /\ UNCHANGED <<ext, hvars, cli, ctl, dev, h, op, bf, num, log, res>>

\* A setter of the builder: AttachOptions::offset, size_limit, read_only, autoclear,
\* set_direct_io, part_scan.
Setter(p, o, g) ==
    /\ pc[p] = "with"
    /\ opts' = [opts EXCEPT ![p] = o]
    /\ given' = [given EXCEPT ![p] = g]
    /\ UNCHANGED <<ext, hvars, cli, ctl, dev, h, pc, op, bf, num, log, res>>

AttachOptions_offset(p, n) ==
    Setter(p, offset(opts[p], n), [given[p] EXCEPT !.offset = n])
AttachOptions_size_limit(p, n) ==
    Setter(p, size_limit(opts[p], n), [given[p] EXCEPT !.size_limit = n])
AttachOptions_read_only(p, b) ==
    Setter(p, read_only(opts[p], b), [given[p] EXCEPT !.read_only = b])
AttachOptions_autoclear(p, b) ==
    Setter(p, autoclear(opts[p], b), [given[p] EXCEPT !.autoclear = b])
AttachOptions_set_direct_io(p, b) ==
    Setter(p, set_direct_io(opts[p], b), [given[p] EXCEPT !.direct_io = b])
AttachOptions_part_scan(p, b) ==
    Setter(p, part_scan(opts[p], b), [given[p] EXCEPT !.part_scan = b])

\* LoopDevice::attach_with_loop_info: the open of the backing file.
attach_with_loop_info(p, f) ==
    LET o == IF f \in Files THEN [ret |-> 0, err |-> ""] ELSE [ret |-> -1, err |-> "ENOENT"]
        r == ioctl_to_error(o.ret, o.err)
    IN /\ log' = [log EXCEPT ![p] = <<Sys("open", -1, o, Unbound, Unbound)>>]
       /\ bf' = [bf EXCEPT ![p] = f]
       /\ IF r.ok THEN Goto(p, "set_fd") ELSE Return(p, r)

\* AttachOptions::attach(backing_file)
AttachOptions_attach(p, f) ==
    /\ pc[p] = "with"
    /\ Begin(p, "attach")
    /\ attach_with_loop_info(p, f)
    /\ UNCHANGED <<ext, hvars, cli, ctl, dev, h, opts, given, num>>

\* AttachOptions::attach_fd(backing_file_fd)
AttachOptions_attach_fd(p, fd) ==
    /\ pc[p] = "with"
    /\ Begin(p, "attach_fd")
    /\ log' = [log EXCEPT ![p] = <<>>]
    /\ bf' = [bf EXCEPT ![p] = fd]
    /\ Goto(p, "set_fd")
    /\ UNCHANGED <<ext, hvars, cli, ctl, dev, h, opts, given, num>>

\* LoopDevice::attach_file(backing_file): the default record, no builder.
LoopDevice_attach_file(p, f) ==
    /\ pc[p] = "idle" /\ h[p] # {}
    /\ Begin(p, "attach_file")
    /\ opts' = [opts EXCEPT ![p] = with]
    /\ given' = [given EXCEPT ![p] = NoneGiven]
    /\ attach_with_loop_info(p, f)
    /\ UNCHANGED <<ext, hvars, cli, ctl, dev, h, num>>

\* Mutant: the result of the bind ioctl is not looked at.
AfterSetFd_ignored(p, r) == Goto(p, "set_status")

\* `ioctl_to_error(ioctl(LOOP_SET_FD))?`: a failed bind returns at once.
AfterSetFd(p, r) == IF r.ok THEN Goto(p, "set_status") ELSE Return(p, r)

\* LoopDevice::attach_fd_with_loop_info, the LOOP_SET_FD ioctl.
attach_set_fd(p) ==
    /\ pc[p] = "set_fd"
    /\ \E o \in K_SetFd(dev[DevOf(p)], bf[p]) :
          LET r == ioctl_to_error(o.ret, o.err)
          IN /\ Ioctl(p, "LOOP_SET_FD", o)
             /\ AfterSetFd(p, r)
    /\ UNCHANGED <<ext, hvars, cli, ctl, h, op, opts, given, bf, num>>

\* Mutant: the direct-I/O ioctl is issued whether requested or not.
AfterAttach_always(p) == Goto(p, "dio")

\* What the builder's terminal operation does once the two ioctls succeeded.
AfterAttach(p) ==
    IF opts[p].direct_io THEN Goto(p, "dio") ELSE Return(p, Ok(0))

\* Mutant: the status error is returned with no detach.
OnStatusError_no_detach(p, r) == Return(p, r)

\* `Err(err) => { let _ = self.detach(); Err(err) }`: the error is kept while the
\* detach runs.
OnStatusError(p, r) == /\ pc' = [pc EXCEPT ![p] = "unwind"]
                       /\ res' = [res EXCEPT ![p] = r]

\* LoopDevice::attach_fd_with_loop_info, the LOOP_SET_STATUS64 ioctl: on failure
\* the error is kept and the detach follows.
attach_set_status(p) ==
    /\ pc[p] = "set_status"
    /\ \E o \in K_SetStatus(dev[DevOf(p)], opts[p].info) :
          LET r == ioctl_to_error(o.ret, o.err)
          IN /\ Ioctl(p, "LOOP_SET_STATUS64", o)
             /\ IF r.ok THEN AfterAttach(p) ELSE OnStatusError(p, r)
    /\ UNCHANGED <<ext, hvars, cli, ctl, h, op, opts, given, bf, num>>

\* Mutant: `self.detach()?` lets a failed detach replace the error.
UnwindResult_propagate(err, d) == IF d.ok THEN err ELSE d

\* What attach returns after the unwind: err is the status ioctl's error, d the
\* result of the detach.
UnwindResult(err, d) == err

\* LoopDevice::attach_fd_with_loop_info, `let _ = self.detach(); Err(err)`.
attach_unwind(p) ==
    /\ pc[p] = "unwind"
    /\ \E o \in K_ClrFd(dev[DevOf(p)], Refs(DevOf(p))) :
          /\ Ioctl(p, "LOOP_CLR_FD", o)
          /\ Return(p, UnwindResult(res[p], ioctl_to_error(o.ret, o.err)))
    /\ UNCHANGED <<ext, hvars, cli, ctl, h, op, opts, given, bf, num>>

\* Mutant: a failed direct-I/O ioctl is followed by the detach, as a failed
\* status ioctl is.
attach_direct_io_unwinding(p) ==
    /\ pc[p] = "dio"
    /\ \E o \in K_SetDirectIo(dev[DevOf(p)], opts[p].direct_io) :
          /\ Ioctl(p, "LOOP_SET_DIRECT_IO", o)
          /\ IF o.ret < 0 THEN OnStatusError(p, ioctl_to_error(o.ret, o.err))
             ELSE Return(p, Ok(0))
    /\ UNCHANGED <<ext, hvars, cli, ctl, h, op, opts, given, bf, num>>

\* AttachOptions::attach / attach_fd: self.device.set_direct_io(self.direct_io)?
attach_direct_io(p) ==
    /\ pc[p] = "dio"
    /\ \E o \in K_SetDirectIo(dev[DevOf(p)], opts[p].direct_io) :
          /\ Ioctl(p, "LOOP_SET_DIRECT_IO", o)
          /\ Return(p, IF o.ret < 0 THEN ioctl_to_error(o.ret, o.err) ELSE Ok(0))
    /\ UNCHANGED <<ext, hvars, cli, ctl, h, op, opts, given, bf, num>>

\* Mutant: the one-ioctl calls return Ok(()) whatever the ioctl returned.
Single_unchecked(p, name, call, outs) ==
    /\ pc[p] = "idle" /\ h[p] # {}
    /\ Begin(p, name)
    /\ \E o \in outs :
          /\ dev' = [dev EXCEPT ![DevOf(p)] = o.nd]
          /\ log' = [log EXCEPT ![p] = <<Sys(call, DevOf(p), o, dev[DevOf(p)], o.nd)>>]
          /\ Return(p, Ok(0))
    /\ UNCHANGED <<ext, hvars, cli, ctl, h, opts, given, bf, num>>

\* A one-ioctl call of LoopDevice on an idle handle.
Single(p, name, call, outs) ==
    /\ pc[p] = "idle" /\ h[p] # {}
    /\ Begin(p, name)
    /\ \E o \in outs :
          /\ dev' = [dev EXCEPT ![DevOf(p)] = o.nd]
          /\ log' = [log EXCEPT ![p] = <<Sys(call, DevOf(p), o, dev[DevOf(p)], o.nd)>>]
          /\ Return(p, IF o.ret < 0 THEN ioctl_to_error(o.ret, o.err) ELSE Ok(0))
    /\ UNCHANGED <<ext, hvars, cli, ctl, h, opts, given, bf, num>>

\* Mutant: detach issues the request code of another ioctl.
LoopDevice_detach_wrong_request(p) ==
    Single(p, "detach", "LOOP_SET_CAPACITY", K_SetCapacity(dev[DevOf(p)]))

\* LoopDevice::detach
LoopDevice_detach(p) ==
    Single(p, "detach", "LOOP_CLR_FD", K_ClrFd(dev[DevOf(p)], Refs(DevOf(p))))

\* LoopDevice::set_capacity
LoopDevice_set_capacity(p) ==
    Single(p, "set_capacity", "LOOP_SET_CAPACITY", K_SetCapacity(dev[DevOf(p)]))

\* LoopDevice::set_direct_io
LoopDevice_set_direct_io(p, b) ==
    Single(p, "set_direct_io", "LOOP_SET_DIRECT_IO", K_SetDirectIo(dev[DevOf(p)], b))

\* The LoopDevice goes out of scope: its File closes (no detach).
Drop(p) ==
    /\ pc[p] \in {"idle", "ret"} /\ h[p] # {}
    /\ h' = [h EXCEPT ![p] = {}]
    /\ dev' = [dev EXCEPT ![DevOf(p)] = K_Release(@, Refs(DevOf(p)) - 1)]
    /\ UNCHANGED <<ext, hvars, cli, ctl, pc, op, opts, given, bf, num, log, res>>

\* The caller has looked at what the call returned and goes on: the record of the
\* call (op, log, res and the consumed builder) is dropped.
Forget(p) ==
    /\ pc' = [pc EXCEPT ![p] = "idle"]
    /\ op' = [op EXCEPT ![p] = "none"]
    /\ opts' = [opts EXCEPT ![p] = with]
    /\ given' = [given EXCEPT ![p] = NoneGiven]
    /\ bf' = [bf EXCEPT ![p] = NoFile]
    /\ log' = [log EXCEPT ![p] = <<>>]
    /\ res' = [res EXCEPT ![p] = NoResult]

Resume(p) ==
    /\ pc[p] = "ret"
    /\ Forget(p)
    /\ UNCHANGED <<ext, hvars, cli, ctl, dev, h, num>>

\* The kernel finishes tearing down a device whose last reference closed.
KernelFinalize(d) ==
    /\ dev[d].st = "rundown"
    /\ dev' = [dev EXCEPT ![d] = Unbound]
    /\ UNCHANGED <<ext, pvars, hvars, cli>>

\* Something outside the library opens the device (udev probing it, a mount).
ExtOpen(d) ==
    /\ ext[d] = 0 /\ dev[d].st \notin {"rundown", "absent"}
    /\ ext' = [ext EXCEPT ![d] = 1]
    /\ UNCHANGED <<dev, pvars, hvars, cli>>

\* ... and closes it again.
ExtClose(d) ==
    /\ ext[d] = 1
    /\ ext' = [ext EXCEPT ![d] = 0]
    /\ dev' = [dev EXCEPT ![d] = K_Release(@, Refs(d) - 1)]
    /\ UNCHANGED <<pvars, hvars, cli>>

\* Another program binds a free device to a file of its own.
ExtAttach(d) ==
    /\ dev[d].st = "unbound"
    /\ \E o \in K_SetFd(dev[d], "parted") : dev' = [dev EXCEPT ![d] = o.nd]
    /\ UNCHANGED <<ext, pvars, hvars, cli>>

\* ------------------------------------------------ tests/util: the retry loop
\* The backing file each caller of next_attach_retried attaches.
FileOf(p) == IF p = "a" THEN "plain" ELSE "parted"

\* The turn of the loop that Retries::next opens with item n.
Turn(n) == [item |-> n, end |-> "open"]

\* The open turn of p ends with e.
Ended(p, e) == [tried EXCEPT ![p] = [@ EXCEPT ![Len(@)].end = e]]

\* Whether the device node showed up within the inner wait of Retries::default().
NodeSeen == BOOLEAN

\* Mutant: every result of the attempt is taken for a success.
Outcome_swallowed(r) == "held"

\* The match of next_attach_retried on the result of the attempt: Ok returns the
\* device, WouldBlock (the kind of EAGAIN) and EBUSY go round the loop again,
\* anything else panics.
Outcome(r) ==
    IF r.ok THEN "held"
    ELSE IF r.err \in {"EAGAIN", "EBUSY"} THEN "iter" ELSE "panic"

\* The LoopDevice of the attempt goes out of scope.
DropHandle(p) ==
    /\ h' = [h EXCEPT ![p] = {}]
    /\ dev' = IF h[p] = {} THEN dev
              ELSE [dev EXCEPT ![DevOf(p)] = K_Release(@, Refs(DevOf(p)) - 1)]

\* LoopControl::open().expect(..)
Retried_opened(p) ==
    /\ hst[p] = "start" /\ pc[p] = "ret"
    /\ hst' = [hst EXCEPT ![p] = IF res[p].ok THEN "iter" ELSE "panic"]
    /\ Forget(p)
    /\ UNCHANGED <<dev, ext, ctl, h, num, retries, lost, tried, cli>>

\* Mutant: the iterator yields without counting down.
Retries_next_uncounted(p) ==
    /\ hst[p] = "iter"
    /\ IF retries[p] = 0
       THEN hst' = [hst EXCEPT ![p] = "out"] /\ UNCHANGED <<retries, tried>>
       ELSE /\ hst' = [hst EXCEPT ![p] = "free"]
            /\ retries' = retries
            /\ tried' = [tried EXCEPT ![p] = <<Turn(retries[p])>>]
    /\ UNCHANGED <<dev, ext, pvars, lost, cli>>

\* Retries::next: None at zero, else the count goes down by one and is yielded.
Retries_next(p) ==
    /\ hst[p] = "iter"
    /\ IF retries[p] = 0
       THEN hst' = [hst EXCEPT ![p] = "out"] /\ UNCHANGED <<retries, tried>>
       ELSE /\ hst' = [hst EXCEPT ![p] = "free"]
            /\ retries' = [retries EXCEPT ![p] = @ - 1]
            /\ tried' = [tried EXCEPT ![p] = Append(@, Turn(retries[p] - 1))]
    /\ UNCHANGED <<dev, ext, pvars, lost, cli>>

\* next_free().and_then(..): a device goes into the closure, an error to the match.
Retried_and_then(p) ==
    /\ hst[p] = "free" /\ pc[p] = "ret"
    /\ hst' = [hst EXCEPT ![p] = IF res[p].ok THEN "built" ELSE Outcome(res[p])]
    /\ tried' = IF res[p].ok THEN tried ELSE Ended(p, res[p].err)
    /\ Forget(p)
    /\ UNCHANGED <<dev, ext, ctl, h, num, retries, lost, cli>>

\* The match on the result of attach: on Ok the device is returned once its node
\* is there, and dropped for another turn if the node never shows up; on an error
\* it is dropped.
Retried_match(p) ==
    /\ hst[p] = "built" /\ pc[p] = "ret"
    /\ \E seen \in NodeSeen :
          LET out == IF res[p].ok /\ ~seen THEN "iter" ELSE Outcome(res[p])
          IN /\ hst' = [hst EXCEPT ![p] = out]
             /\ IF out = "held" THEN UNCHANGED <<h, dev>> ELSE DropHandle(p)
             /\ tried' = Ended(p, IF ~res[p].ok THEN res[p].err
                                  ELSE IF seen THEN "ok" ELSE "nonode")
    /\ lost' = [lost EXCEPT ![p] = IF ~res[p].ok /\ res[p].err = "EBUSY" /\ h[p] # {}
                                   THEN Append(@, DevOf(p)) ELSE @]
    /\ Forget(p)
    /\ UNCHANGED <<ext, ctl, num, retries, cli>>

\* AttachedLoopDevice::drop: detach().expect(..), then the device is dropped.
AttachedLoopDevice_drop(p) ==
    /\ hst[p] = "held" /\ pc[p] = "ret"
    /\ hst' = [hst EXCEPT ![p] = IF res[p].ok THEN "done" ELSE "panic"]
    /\ DropHandle(p)
    /\ Forget(p)
    /\ UNCHANGED <<ext, ctl, num, retries, lost, tried, cli>>

\* ------------------------------------------------- losetup: the command line
\* The subcommands of the clap application.
Cmds == {"find", "attach", "detach", "setcapacity", "list"}

\* Exit status of a Rust process that panicked.
PanicCode == 101

\* The first core operation of a subcommand; `named` tells whether attach was
\* given its optional loopdev argument.  list does nothing but unimplemented!().
FirstStage(c, named) ==
    CASE c = "find" -> "ctl"
      [] c = "attach" -> IF named THEN "open" ELSE "ctl"
      [] c \in {"detach", "setcapacity"} -> "open"
      [] OTHER -> "list"

\* The operation that follows a successful one ("ok": the function returns Ok(())
\* after printing the device path where it prints one).
NextStage(c, stage) ==
    CASE stage = "ctl" -> "free"
      [] stage = "free" -> IF c = "attach" THEN "attach" ELSE "ok"
      [] stage = "open" -> IF c = "attach" THEN "attach"
                           ELSE IF c = "detach" THEN "detach" ELSE "setcap"
      [] OTHER -> "ok"

At_stage(stage) == cli.st = "run" /\ cli.stage = stage

\* main: clap has parsed the arguments and the match picks the function.
main_dispatch(c, named) ==
    /\ cli.st = "start"
    /\ cli' = [cli EXCEPT !.st = "run", !.cmd = c, !.stage = FirstStage(c, named)]
    /\ UNCHANGED <<dev, ext, pvars, hvars>>

\* The `?` after a core operation: on Ok the function goes on, on Err it returns
\* the error to main.
main_try(p) ==
    /\ cli.st = "run" /\ pc[p] = "ret"
    /\ cli' = IF res[p].ok
              THEN [cli EXCEPT !.stage = NextStage(cli.cmd, cli.stage)]
              ELSE [cli EXCEPT !.stage = "err", !.result = res[p]]
    /\ Forget(p)
    /\ UNCHANGED <<dev, ext, ctl, h, num, hvars>>

\* How the process ends: main returns (0), `exit(1)` after the error was written
\* to standard error, or the panic of unimplemented!().
ExitCode(stage) ==
    IF stage = "ok" THEN 0 ELSE IF stage = "err" THEN 1 ELSE PanicCode

\* The process ends and its open files close.
main_exit(p) ==
    /\ cli.st = "run" /\ pc[p] = "idle" /\ cli.stage \in {"ok", "err", "list"}
    /\ cli' = [cli EXCEPT !.st = "exited", !.code = ExitCode(cli.stage),
                          !.stderr = IF cli.stage = "err" THEN cli.result.err
                                     ELSE IF cli.stage = "list" THEN "not implemented"
                                     ELSE ""]
    /\ DropHandle(p)
    /\ ctl' = [ctl EXCEPT ![p] = FALSE]
    /\ UNCHANGED <<ext, pc, op, opts, given, bf, num, log, res, hvars>>

\* losetup is run again.
main_again ==
    /\ cli.st = "exited"
    /\ cli' = [CliOff EXCEPT !.st = "start"]
    /\ UNCHANGED <<dev, ext, pvars, hvars>>

\* --------------------------------------------------------- specifications
\* The process whose calls the single-process specifications follow.
Caller == "a"

\* One process uses the whole library with the default record (and direct I/O on
\* or off), beside the kernel and an outside opener of the devices.
Next ==
    \/ LoopControl_open(Caller)
    \/ next_free(Caller)
    \/ next_free_open(Caller)
    \/ \E pth \in DevPaths \cup {NoSuchPath} : LoopDevice_open(Caller, pth)
    \/ LoopDevice_with(Caller)
    \/ \E b \in BOOLEAN : AttachOptions_set_direct_io(Caller, b)
    \/ \E f \in {"plain", Missing} : AttachOptions_attach(Caller, f)
    \/ \E f \in {"plain", BadFd} : AttachOptions_attach_fd(Caller, f)
    \/ \E f \in {"plain", Missing} : LoopDevice_attach_file(Caller, f)
    \/ attach_set_fd(Caller)
    \/ attach_set_status(Caller)
    \/ attach_unwind(Caller)
    \/ attach_direct_io(Caller)
    \/ LoopDevice_detach(Caller)
    \/ LoopDevice_set_capacity(Caller)
    \/ \E b \in BOOLEAN : LoopDevice_set_direct_io(Caller, b)
    \/ Drop(Caller)
    \/ Resume(Caller)
    \/ \E d \in Devs : KernelFinalize(d)
    \/ \E d \in Devs : ExtOpen(d)
    \/ \E d \in Devs : ExtClose(d)

Spec == Init /\ [][Next]_vars

\* The process opens a device, attaches a file through the builder with every
\* offset and size limit, and detaches; nothing else holds the devices, and the
\* kernel does finish a teardown it has begun.
NextOff ==
    \/ \E pth \in DevPaths : LoopDevice_open(Caller, pth)
    \/ LoopDevice_with(Caller)
    \/ \E n \in Offsets : AttachOptions_offset(Caller, n)
    \/ \E n \in Offsets : AttachOptions_size_limit(Caller, n)
    \/ \E f \in {"plain", Missing} : AttachOptions_attach(Caller, f)
    \/ attach_set_fd(Caller)
    \/ attach_set_status(Caller)
    \/ attach_unwind(Caller)
    \/ LoopDevice_detach(Caller)
    \/ Drop(Caller)
    \/ Resume(Caller)
    \/ \E d \in Devs : KernelFinalize(d)

SpecOff == Init /\ [][NextOff]_vars /\ \A d \in Devs : WF_vars(KernelFinalize(d))

\* The process setting and clearing every flag of the builder, on files with and
\* without a partition table.
NextScan ==
    \/ \E pth \in DevPaths : LoopDevice_open(Caller, pth)
    \/ LoopDevice_with(Caller)
    \/ \E b \in BOOLEAN : AttachOptions_read_only(Caller, b)
    \/ \E b \in BOOLEAN : AttachOptions_autoclear(Caller, b)
    \/ \E b \in BOOLEAN : AttachOptions_part_scan(Caller, b)
    \/ \E b \in BOOLEAN : AttachOptions_set_direct_io(Caller, b)
    \/ \E f \in Files : AttachOptions_attach(Caller, f)
    \/ attach_set_fd(Caller)
    \/ attach_set_status(Caller)
    \/ attach_unwind(Caller)
    \/ attach_direct_io(Caller)
    \/ LoopDevice_detach(Caller)
    \/ Drop(Caller)
    \/ Resume(Caller)
    \/ \E d \in Devs : KernelFinalize(d)

SpecScan == Init /\ [][NextScan]_vars

\* The process attaches a file to a device it opened and detaches it; nothing else
\* holds the devices, and the kernel does finish a teardown it has begun.
NextDetach ==
    \/ \E pth \in DevPaths : LoopDevice_open(Caller, pth)
    \/ LoopDevice_attach_file(Caller, "plain")
    \/ attach_set_fd(Caller)
    \/ attach_set_status(Caller)
    \/ attach_unwind(Caller)
    \/ LoopDevice_detach(Caller)
    \/ LoopDevice_set_capacity(Caller)
    \/ Drop(Caller)
    \/ Resume(Caller)
    \/ \E d \in Devs : KernelFinalize(d)

SpecDetach ==
    Init /\ [][NextDetach]_vars /\ \A d \in Devs : WF_vars(KernelFinalize(d))

\* Two processes each run next_attach_retried on a file of their own and later
\* drop the AttachedLoopDevice they got.
InitRace ==
    /\ InitLib
    /\ cli = CliOff
    /\ hst = [p \in Procs |-> "start"]
    /\ retries = [p \in Procs |-> MaxTries]
    /\ lost = [p \in Procs |-> <<>>]
    /\ tried = [p \in Procs |-> <<>>]

NextRace ==
    \/ \E p \in Procs : hst[p] = "start" /\ LoopControl_open(p)
    \/ \E p \in Procs : Retried_opened(p)
    \/ \E p \in Procs : Retries_next(p)
    \/ \E p \in Procs : hst[p] = "free" /\ next_free(p)
    \/ \E p \in Procs : hst[p] = "free" /\ next_free_open(p)
    \/ \E p \in Procs : Retried_and_then(p)
    \/ \E p \in Procs : hst[p] = "built" /\ LoopDevice_with(p)
    \/ \E p \in Procs : hst[p] = "built" /\ AttachOptions_offset(p, 0)
    \/ \E p \in Procs : hst[p] = "built" /\ AttachOptions_size_limit(p, 0)
    \/ \E p \in Procs : hst[p] = "built" /\ AttachOptions_part_scan(p, FALSE)
    \/ \E p \in Procs : hst[p] = "built" /\ AttachOptions_attach(p, FileOf(p))
    \/ \E p \in Procs : hst[p] = "built" /\ attach_set_fd(p)
    \/ \E p \in Procs : hst[p] = "built" /\ attach_set_status(p)
    \/ \E p \in Procs : hst[p] = "built" /\ attach_unwind(p)
    \/ \E p \in Procs : Retried_match(p)
    \/ \E p \in Procs : hst[p] = "held" /\ LoopDevice_detach(p)
    \/ \E p \in Procs : AttachedLoopDevice_drop(p)
    \/ \E d \in Devs : KernelFinalize(d)

SpecRace == InitRace /\ [][NextRace]_vars

\* One process runs next_attach_retried to its end while other programs take
\* free devices; the process keeps running, the others need not.
InitRetry ==
    /\ InitLib
    /\ cli = CliOff
    /\ hst = [p \in Procs |-> IF p = Caller THEN "start" ELSE "off"]
    /\ retries = [p \in Procs |-> IF p = Caller THEN MaxTries ELSE 0]
    /\ lost = [p \in Procs |-> <<>>]
    /\ tried = [p \in Procs |-> <<>>]

NextRetried ==
    \/ hst[Caller] = "start" /\ LoopControl_open(Caller)
    \/ Retried_opened(Caller)
    \/ Retries_next(Caller)
    \/ hst[Caller] = "free" /\ next_free(Caller)
    \/ hst[Caller] = "free" /\ next_free_open(Caller)
    \/ Retried_and_then(Caller)
    \/ hst[Caller] = "built" /\ LoopDevice_with(Caller)
    \/ hst[Caller] = "built" /\ AttachOptions_offset(Caller, 0)
    \/ hst[Caller] = "built" /\ AttachOptions_size_limit(Caller, 0)
    \/ hst[Caller] = "built" /\ AttachOptions_part_scan(Caller, FALSE)
    \/ hst[Caller] = "built" /\ AttachOptions_attach(Caller, FileOf(Caller))
    \/ hst[Caller] = "built" /\ attach_set_fd(Caller)
    \/ hst[Caller] = "built" /\ attach_set_status(Caller)
    \/ hst[Caller] = "built" /\ attach_unwind(Caller)
    \/ Retried_match(Caller)

NextRetry ==
    \/ NextRetried
    \/ \E d \in Devs : ExtAttach(d)
    \/ \E d \in Devs : KernelFinalize(d)

SpecRetry == InitRetry /\ [][NextRetry]_vars /\ WF_vars(NextRetried)

\* The process attaches with autoclear on or off, detaches or just drops its
\* handle, while something else may hold the device open too.
NextClear ==
    \/ \E pth \in DevPaths : LoopDevice_open(Caller, pth)
    \/ LoopDevice_with(Caller)
    \/ \E b \in BOOLEAN : AttachOptions_autoclear(Caller, b)
    \/ AttachOptions_attach(Caller, "plain")
    \/ attach_set_fd(Caller)
    \/ attach_set_status(Caller)
    \/ attach_unwind(Caller)
    \/ LoopDevice_detach(Caller)
    \/ Drop(Caller)
    \/ Resume(Caller)
    \/ \E d \in Devs : KernelFinalize(d)
    \/ \E d \in Devs : ExtOpen(d)
    \/ \E d \in Devs : ExtClose(d)

SpecClear == Init /\ [][NextClear]_vars

\* losetup is run time and again with every subcommand, beside the kernel and an
\* outside opener of the devices.
InitCli ==
    /\ InitLib
    /\ hst = [p \in Procs |-> "off"]
    /\ retries = [p \in Procs |-> 0]
    /\ lost = [p \in Procs |-> <<>>]
    /\ tried = [p \in Procs |-> <<>>]
    /\ cli = [CliOff EXCEPT !.st = "start"]

NextCli ==
    \/ \E c \in Cmds, named \in BOOLEAN : main_dispatch(c, named)
    \/ At_stage("ctl") /\ LoopControl_open(Caller)
    \/ At_stage("free") /\ next_free(Caller)
    \/ At_stage("free") /\ next_free_open(Caller)
    \/ At_stage("open") /\ \E pth \in DevPaths \cup {NoSuchPath} : LoopDevice_open(Caller, pth)
    \/ At_stage("attach") /\ LoopDevice_with(Caller)
    \/ At_stage("attach") /\ AttachOptions_offset(Caller, FileSize)
    \/ At_stage("attach") /\ AttachOptions_size_limit(Caller, FileSize)
    \/ At_stage("attach") /\ AttachOptions_read_only(Caller, TRUE)
    \/ At_stage("attach") /\ AttachOptions_autoclear(Caller, TRUE)
    \/ At_stage("attach") /\ AttachOptions_part_scan(Caller, TRUE)
    \/ At_stage("attach") /\ \E f \in {"plain", Missing} : AttachOptions_attach(Caller, f)
    \/ At_stage("attach") /\ attach_set_fd(Caller)
    \/ At_stage("attach") /\ attach_set_status(Caller)
    \/ At_stage("attach") /\ attach_unwind(Caller)
    \/ At_stage("detach") /\ LoopDevice_detach(Caller)
    \/ At_stage("setcap") /\ LoopDevice_set_capacity(Caller)
    \/ main_try(Caller)
    \/ main_exit(Caller)
    \/ main_again
    \/ \E d \in Devs : KernelFinalize(d)
    \/ \E d \in Devs : ExtOpen(d)
    \/ \E d \in Devs : ExtClose(d)

SpecCli == InitCli /\ [][NextCli]_vars

\* Device 0 exists, the other indices have no device yet; the process adds
\* devices by index and uses them.
InitAdd ==
    /\ dev = [d \in Devs |-> IF d = 0 THEN Unbound ELSE Absent]
    /\ InitCallers
    /\ hst = [p \in Procs |-> "off"]
    /\ retries = [p \in Procs |-> 0]
    /\ lost = [p \in Procs |-> <<>>]
    /\ tried = [p \in Procs |-> <<>>]
    /\ cli = CliOff

NextAdd ==
    \/ LoopControl_open(Caller)
    \/ \E n \in Devs : LoopControl_add(Caller, n)
    \/ next_free_open(Caller)
    \/ \E pth \in DevPaths : LoopDevice_open(Caller, pth)
    \/ LoopDevice_attach_file(Caller, "plain")
    \/ attach_set_fd(Caller)
    \/ attach_set_status(Caller)
    \/ attach_unwind(Caller)
    \/ LoopDevice_detach(Caller)
    \/ Drop(Caller)
    \/ Resume(Caller)
    \/ \E d \in Devs : KernelFinalize(d)

SpecAdd == InitAdd /\ [][NextAdd]_vars

\* The process calls the setters of a builder in every order, with every value,
\* before it attaches.
NextBuild ==
    \/ \E pth \in DevPaths : LoopDevice_open(Caller, pth)
    \/ LoopDevice_with(Caller)
    \/ \E n \in Offsets : AttachOptions_offset(Caller, n)
    \/ \E n \in Offsets : AttachOptions_size_limit(Caller, n)
    \/ \E b \in BOOLEAN : AttachOptions_read_only(Caller, b)
    \/ \E b \in BOOLEAN : AttachOptions_autoclear(Caller, b)
    \/ \E b \in BOOLEAN : AttachOptions_part_scan(Caller, b)
    \/ \E b \in BOOLEAN : AttachOptions_set_direct_io(Caller, b)
    \/ AttachOptions_attach(Caller, "plain")
    \/ attach_set_fd(Caller)
    \/ attach_set_status(Caller)
    \/ attach_unwind(Caller)
    \/ attach_direct_io(Caller)
    \/ Resume(Caller)

SpecBuild == Init /\ [][NextBuild]_vars

\* ------------------------------------------------------------------ claims
\* The call `name` of process p has returned and the caller has not gone on.
Returned(p, name) == pc[p] = "ret" /\ op[p] = name

\* One of the attach calls of p has returned.
AttachReturned(p) == pc[p] = "ret" /\ op[p] \in {"attach", "attach_fd", "attach_file"}

\* The positions of the system call `c` in the log of p's call.
At(p, c) == {i \in DOMAIN log[p] : log[p][i].call = c}

Succeeded(p, c) == \E i \in At(p, c) : log[p][i].ret >= 0
Failed(p, c) == \E i \in At(p, c) : log[p][i].ret < 0

Last(p) == log[p][Len(log[p])]

\* The device is no longer attached, or its teardown is set for the last close.
Released(s) == s.st = "unbound" \/ Bits(LO_FLAGS_AUTOCLEAR) \subseteq s.lo_flags

\* The bind succeeded and the status ioctl failed in the attach that returned to p.
HalfBound(p) ==
    AttachReturned(p) /\ Succeeded(p, "LOOP_SET_FD") /\ Failed(p, "LOOP_SET_STATUS64")

\* The detach follows the failed status ioctl, on the device that was bound.
UnwindIssued(p) ==
    /\ Last(p).call = "LOOP_CLR_FD"
    /\ \A i \in At(p, "LOOP_SET_FD") : Last(p).dev = log[p][i].dev
    /\ \A i \in At(p, "LOOP_SET_STATUS64") : i = Len(log[p]) - 1

\* C1 as claimed: after a successful bind and a failed status ioctl, attach has
\* issued a detach on the same device before it returns and the device is left
\* unattached, whatever the calls in between returned.
C1_Original ==
    \A p \in Procs : HalfBound(p) => UnwindIssued(p) /\ Released(Last(p).post)

\* C1 amended: after a successful bind and a failed status ioctl, attach has issued
\* a detach on the same device before it returns; the device is left unattached
\* (at once or at its last close) when that detach succeeds, and a detach refused
\* as busy leaves the device bound to the backing file.
C1_UnwindDetach ==
    \A p \in Procs :
       HalfBound(p) =>
          /\ UnwindIssued(p)
          /\ Last(p).ret >= 0 => Released(Last(p).post)
          /\ (Last(p).ret < 0 /\ Last(p).err = "EBUSY") =>
                Last(p).post.st = "bound" /\ Last(p).post.file = bf[p]

\* C1 witness: an attach returned after bind, failed status and a successful detach.
C1_Witness ==
    \E p \in Procs : HalfBound(p) /\ Last(p).call = "LOOP_CLR_FD" /\ Last(p).ret >= 0
                     /\ Last(p).post.st = "unbound"

\* C2: when the status ioctl of attach fails, attach returns the status ioctl's
\* error whether the detach that follows succeeds or fails.
C2_OriginalErrorWins ==
    \A p \in Procs :
       AttachReturned(p) =>
          \A i \in At(p, "LOOP_SET_STATUS64") :
             log[p][i].ret < 0 => res[p] = Err(log[p][i].err)

\* C2 witness: the status ioctl failed with one error, the detach with another.
C2_Witness ==
    \E p \in Procs :
       /\ HalfBound(p) /\ Last(p).call = "LOOP_CLR_FD" /\ Last(p).ret < 0
       /\ \E i \in At(p, "LOOP_SET_STATUS64") : log[p][i].err # Last(p).err

\* The calls attach makes after the bind stage.
LaterCalls == {"LOOP_SET_STATUS64", "LOOP_CLR_FD", "LOOP_SET_DIRECT_IO"}

\* C3: when the open of the backing file or the bind ioctl fails, attach returns
\* that error having issued no status, detach or direct-I/O ioctl, and the failed
\* bind left the device's binding as it found it.
C3_BindFailureStops ==
    \A p \in Procs :
       AttachReturned(p) =>
          /\ Failed(p, "open") => log[p] = <<log[p][1]>> /\ res[p] = Err(log[p][1].err)
          /\ Failed(p, "LOOP_SET_FD") =>
                /\ \A c \in LaterCalls : At(p, c) = {}
                /\ Last(p).call = "LOOP_SET_FD"
                /\ Last(p).post = Last(p).pre
                /\ res[p] = Err(Last(p).err)

\* C3 witness: an attach on a device bound to a file returned busy.
C3_Witness ==
    \E p \in Procs :
       /\ AttachReturned(p) /\ Last(p).call = "LOOP_SET_FD" /\ Last(p).err = "EBUSY"
       /\ Last(p).pre.st = "bound" /\ dev[Last(p).dev] = Last(p).pre

\* The path of the handle the call returned to p (LoopDevice::path on it).
HandlePath(p) == NodePath(res[p].v)

\* C7: a next_free that succeeds returns a handle open on LOOP_PREFIX followed by
\* the index the ioctl returned, which is not negative and was not attached when
\* the ioctl ran; when the ioctl returns a negative value next_free returns the
\* error and opens nothing.
C7_NextFreeHandle ==
    \A p \in Procs :
       Returned(p, "next_free") =>
          /\ log[p][1].call = "LOOP_CTL_GET_FREE"
          /\ res[p].ok =>
                /\ log[p][1].ret >= 0
                /\ log[p][1].ret \notin log[p][1].att
                /\ h[p] \in {{res[p].v}, {}}
                /\ HandlePath(p) = LOOP_PREFIX \o ToString(log[p][1].ret)
          /\ log[p][1].ret < 0 =>
                /\ res[p] = Err(log[p][1].err)
                /\ Len(log[p]) = 1
                /\ h[p] = {}

\* C7 witness: next_free succeeded while a lower device was attached.
C7_Witness ==
    \E p \in Procs : Returned(p, "next_free") /\ res[p].ok /\ log[p][1].ret > 0

\* The lowest index that is not in the set A of attached devices.
FirstFree(A) == Lowest((0..(MaxDev + 1)) \ A)

\* C8 as claimed: with exactly k devices attached when it is called, next_free
\* returns the device /dev/loop<k>.
C8_Original ==
    \A p \in Procs :
       (Returned(p, "next_free") /\ res[p].ok) =>
          HandlePath(p) = "/dev/loop" \o ToString(Cardinality(log[p][1].att))

\* C8 amended: next_free returns the lowest-numbered device that is not attached;
\* that is /dev/loop<k> when the k attached devices are the devices 0..k-1.
C8_FirstFree ==
    \A p \in Procs :
       (Returned(p, "next_free") /\ res[p].ok) =>
          LET A == log[p][1].att
              k == Cardinality(A)
          IN /\ HandlePath(p) = "/dev/loop" \o ToString(FirstFree(A))
             /\ A = 0..(k - 1) => HandlePath(p) = "/dev/loop" \o ToString(k)

\* C8 witness: next_free returned /dev/loop1 with exactly device 0 attached.
C8_Witness ==
    \E p \in Procs :
       /\ Returned(p, "next_free") /\ res[p].ok
       /\ log[p][1].att = {0} /\ HandlePath(p) = "/dev/loop1"

\* C10: in the builder's attach and attach_fd the direct-I/O ioctl is issued
\* exactly when direct I/O was requested and the bind and status ioctls both
\* succeeded; it comes after them, and its failure is what the call returns.
C10_DirectIoOrdering ==
    \A p \in Procs :
       (pc[p] = "ret" /\ op[p] \in {"attach", "attach_fd"}) =>
          /\ At(p, "LOOP_SET_DIRECT_IO") # {} <=>
                /\ given[p].direct_io
                /\ Succeeded(p, "LOOP_SET_FD")
                /\ Succeeded(p, "LOOP_SET_STATUS64")
          /\ \A i \in At(p, "LOOP_SET_DIRECT_IO") :
                /\ i = Len(log[p])
                /\ \A j \in At(p, "LOOP_SET_FD") \cup At(p, "LOOP_SET_STATUS64") : j < i
                /\ log[p][i].ret < 0 => res[p] = Err(log[p][i].err)
                /\ log[p][i].ret >= 0 => res[p] = Ok(0)

\* C10 witness: attach_fd returned the error of the direct-I/O ioctl.
C10_Witness ==
    \E p \in Procs :
       /\ Returned(p, "attach_fd") /\ Last(p).call = "LOOP_SET_DIRECT_IO"
       /\ Last(p).ret < 0 /\ ~res[p].ok

\* The status ioctl of the attach that returned to p.
StatusCall(p) == log[p][CHOOSE i \in At(p, "LOOP_SET_STATUS64") : TRUE]

BuilderReturned(p) == pc[p] = "ret" /\ op[p] \in {"attach", "attach_fd"}

DetachedAndClosed(d) ==
    \E p \in Procs :
       /\ Returned(p, "detach") /\ res[p].ok /\ h[p] = {}
       /\ log[p][1].dev = d /\ log[p][1].pre.st = "bound"

\* C6: once detach has returned success on an attached device and the caller's
\* handle is closed, the device eventually shows no backing file.
C6_DetachRoundTrip ==
    \A d \in Devs : DetachedAndClosed(d) ~> (dev[d].st = "unbound")

\* C6 witness: detach returned success, the handle is closed and the kernel has
\* not finished the teardown yet.
C6_Witness ==
    \E d \in Devs : DetachedAndClosed(d) /\ dev[d].st = "rundown"

\* C9 as claimed: part_scan(true) sets and part_scan(false) clears the kernel's
\* partition-scan flag in the record attach passes, and an attach with part_scan
\* enabled of a file holding one partition leaves the device with one partition.
C9_PartScan ==
    \A p \in Procs :
       (BuilderReturned(p) /\ res[p].ok) =>
          /\ given[p].part_scan <=> Bits(LO_FLAGS_PARTSCAN) \subseteq opts[p].info.lo_flags
          /\ given[p].part_scan => StatusCall(p).post.nparts = PartsIn(bf[p])

\* next_attach_retried has returned the device to p, which still holds it attached.
Held(p) == hst[p] = "held" /\ pc[p] = "idle"

\* The attach of p found the device already bound.
FoundBound(p) ==
    \E i \in At(p, "LOOP_SET_FD") : log[p][i].pre.st # "unbound"

\* What C4 keeps of the claim under every interleaving: no two callers hold the
\* same index, an attach that finds the device bound returns the busy error, and
\* every attach follows a next_free call of its own turn of the loop.
C4_Common ==
    /\ \A p, q \in Procs : (p # q /\ Held(p) /\ Held(q)) => h[p] \cap h[q] = {}
    /\ \A p \in Procs :
          (hst[p] = "built" /\ Returned(p, "attach") /\ FoundBound(p)) =>
              /\ res[p] = Err("EBUSY")
              /\ ~Succeeded(p, "LOOP_SET_FD")
    /\ \A p \in Procs :
          hst[p] \in {"built", "held"} =>
              /\ MaxTries - retries[p] = Len(tried[p])
              /\ Len(lost[p]) <= Len(tried[p]) - 1

\* C4 as claimed: ... and the caller that lost an index ends up attached to an
\* index different from the one it lost.
C4_Original ==
    /\ C4_Common
    /\ \A p \in Procs :
          Held(p) => \A i \in DOMAIN lost[p] : lost[p][i] \notin h[p]

\* C4: two callers interleaving next_free and attach may be handed the same index
\* but never both hold it; the attach that finds it bound fails with the busy
\* error, and that caller becomes attached only after another next_free, to the
\* index that call returned, bound to its own file -- the index it lost included,
\* once the other caller's binding is gone.
C4_BusyRetry ==
    /\ C4_Common
    /\ \A p \in Procs :
          Held(p) => \A d \in h[p] : dev[d].st = "bound" /\ dev[d].file = FileOf(p)

\* C4 witness: both callers were handed an index, one lost it to the other and
\* holds a different one while the other still holds the first.
C4_Witness ==
    \E p, q \in Procs :
       /\ Held(p) /\ Held(q) /\ lost[q] # <<>>
       /\ lost[q][1] \in h[p] /\ h[p] \cap h[q] = {} /\ h[q] # {}

\* The device has the autoclear flag.
HasAutoclear(s) == Bits(LO_FLAGS_AUTOCLEAR) \subseteq s.lo_flags

\* The open references to d after the step.
RefsNext(d) == Cardinality({p \in Procs : d \in h'[p]}) + ext'[d]

\* The step is a LOOP_CLR_FD on d that the kernel accepted.
DetachStep(d) ==
    \E p \in Procs :
       /\ log'[p] # log[p] /\ log'[p] # <<>>
       /\ LET e == log'[p][Len(log'[p])]
          IN e.call = "LOOP_CLR_FD" /\ e.dev = d /\ e.ret >= 0

\* The step of a builder attach on d in which the status ioctl was accepted.
StatusStep(d, p) ==
    /\ log'[p] # log[p] /\ log'[p] # <<>>
    /\ LET e == log'[p][Len(log'[p])]
       IN e.call = "LOOP_SET_STATUS64" /\ e.dev = d /\ e.ret >= 0

\* What a step may do to the binding of device d.
AutoclearStep(d) ==
    /\ \* the device gets the flag from autoclear(true) or from an accepted detach
       (dev[d].st = "bound" /\ ~HasAutoclear(dev[d]) /\ HasAutoclear(dev'[d])) =>
           \/ DetachStep(d)
           \/ \E p \in Procs : StatusStep(d, p) /\ given[p].autoclear
    /\ \* the status ioctl of an attach sets the flag exactly as autoclear said
       \A p \in Procs :
          (StatusStep(d, p) /\ ~HasAutoclear(dev[d])) =>
              (HasAutoclear(dev'[d]) <=> given[p].autoclear)
    /\ \* a bound device without the flag is unbound by an accepted detach only
       (dev[d].st = "bound" /\ ~HasAutoclear(dev[d]) /\ dev'[d].st # "bound") =>
           DetachStep(d)
    /\ \* closing handles of a device without the flag leaves it as it is
       (dev[d].st = "bound" /\ ~HasAutoclear(dev[d]) /\ RefsNext(d) < Refs(d)) =>
           dev'[d] = dev[d]
    /\ \* with the flag, the close of the last reference unbinds, no detach called
       (dev[d].st = "bound" /\ HasAutoclear(dev[d]) /\ Refs(d) > 0 /\ RefsNext(d) = 0) =>
           dev'[d].st # "bound" /\ ~DetachStep(d)
    /\ \* with the flag, the device stays bound while a reference is open
       (dev[d].st = "bound" /\ HasAutoclear(dev[d]) /\ dev'[d].st # "bound") =>
           DetachStep(d) \/ (Refs(d) > 0 /\ RefsNext(d) = 0)

\* C11: closing handles tears the binding down exactly when the device has
\* autoclear: a device attached without autoclear stays attached through every
\* close, the last one included, and is unbound only by a detach that succeeded;
\* a device attached with autoclear is unbound by the close of its last open
\* reference, no detach being called.
C11_AutoclearRelease == [][\A d \in Devs : AutoclearStep(d)]_vars

\* C11 witness: an attach with autoclear returned, the handle was dropped with no
\* detach, and the device is being torn down.
C11_Witness ==
    \E p \in Procs :
       /\ BuilderReturned(p) /\ res[p].ok /\ given[p].autoclear /\ h[p] = {}
       /\ At(p, "LOOP_CLR_FD") = {}
       /\ dev[StatusCall(p).dev].st = "rundown"

\* The system calls of p's call that failed, and the first of them.
Failures(p) == {i \in DOMAIN log[p] : log[p][i].ret < 0}
FirstFailure(p) == CHOOSE i \in Failures(p) : \A j \in Failures(p) : i <= j

\* C12: a core operation returns success exactly when every open and ioctl it made
\* succeeded, and otherwise returns the error of the first that failed; the only
\* failure that is not returned is that of the detach issued right after a failed
\* status ioctl in attach.  A detach the kernel refuses as busy and a set_capacity
\* on an unattached device return the error and leave the device as it was.
C12_Propagation ==
    \A p \in Procs :
       (pc[p] = "ret" /\ log[p] # <<>>) =>
          /\ res[p].ok <=> Failures(p) = {}
          /\ Failures(p) # {} =>
                /\ res[p] = Err(log[p][FirstFailure(p)].err)
                /\ \A i \in Failures(p) \ {FirstFailure(p)} :
                      /\ AttachReturned(p)
                      /\ log[p][i].call = "LOOP_CLR_FD"
                      /\ i = FirstFailure(p) + 1
                      /\ log[p][FirstFailure(p)].call = "LOOP_SET_STATUS64"
          /\ (Returned(p, "detach") /\ log[p][1].err = "EBUSY") =>
                ~res[p].ok /\ log[p][1].post = log[p][1].pre /\ log[p][1].pre.st = "bound"
          /\ (Returned(p, "set_capacity") /\ log[p][1].pre.st # "bound") =>
                res[p] = Err("ENXIO") /\ log[p][1].post = log[p][1].pre

\* C12 witness: a detach of a device something else holds open returned busy.
C12_Witness ==
    \E p \in Procs :
       /\ Returned(p, "detach") /\ res[p] = Err("EBUSY")
       /\ log[p][1].pre.st = "bound" /\ dev[log[p][1].dev].st = "bound"
       /\ ext[log[p][1].dev] > 0

\* C13 as claimed: whatever the subcommand, losetup ends with status 0 when the
\* operation succeeded, and with status 1 and the error message on standard error
\* when a core operation returned an error; it ends in no other way.
C13_ExitStatus ==
    cli.st = "exited" =>
       /\ cli.cmd \in Cmds
       /\ cli.code \in {0, 1}
       /\ cli.code = 0 <=> cli.result = NoResult
       /\ cli.code = 1 => cli.stderr = cli.result.err /\ cli.stderr # ""
       /\ cli.code = 0 => cli.stderr = ""

FlagsOf(b1, f1, b2, f2, b3, f3) ==
    (IF b1 THEN Bits(f1) ELSE {}) \cup (IF b2 THEN Bits(f2) ELSE {})
       \cup (IF b3 THEN Bits(f3) ELSE {})

\* C15 as claimed: from the all-zero record of with(), every setter changes its
\* own field or its own flag bit only, so that after any sequence of setter calls
\* the record holds, option by option, the value of the last call: the offset, the
\* size limit, direct I/O, and in lo_flags the read-only, autoclear and
\* partition-scan bits and no other bit.
C15_SettersIndependent ==
    \A p \in Procs :
       pc[p] = "with" =>
          /\ opts[p].info.lo_offset = given[p].offset
          /\ opts[p].info.lo_sizelimit = given[p].size_limit
          /\ opts[p].direct_io = given[p].direct_io
          /\ opts[p].info.lo_flags =
                FlagsOf(given[p].read_only, LO_FLAGS_READ_ONLY,
                        given[p].autoclear, LO_FLAGS_AUTOCLEAR,
                        given[p].part_scan, LO_FLAGS_PARTSCAN)

\* C16: when the builder's attach or attach_fd has bound the file and set the
\* status and the direct-I/O ioctl then fails, the call returns that error and
\* issues no detach: the device is still attached to the backing file.
C16_NoUnwindAfterDirectIo ==
    \A p \in Procs :
       (BuilderReturned(p) /\ Failed(p, "LOOP_SET_DIRECT_IO")) =>
          /\ Succeeded(p, "LOOP_SET_FD") /\ Succeeded(p, "LOOP_SET_STATUS64")
          /\ res[p] = Err(Last(p).err)
          /\ Last(p).call = "LOOP_SET_DIRECT_IO"
          /\ At(p, "LOOP_CLR_FD") = {}
          /\ dev[Last(p).dev].st = "bound"
          /\ dev[Last(p).dev].file = bf[p]

\* C16 witness: attach by path returned the direct-I/O error and the device it
\* was called on is bound to the file.
C16_Witness ==
    \E p \in Procs :
       /\ Returned(p, "attach") /\ Failed(p, "LOOP_SET_DIRECT_IO") /\ ~res[p].ok
       /\ h[p] # {} /\ dev[DevOf(p)].st = "bound" /\ dev[DevOf(p)].file = "plain"

\* How a turn of the retry loop ends when the loop goes on to another one.
Retryable == {"EBUSY", "EAGAIN", "nonode"}

\* next_attach_retried of p is over: it returned the device or the out-of-retries
\* error, or it panicked.
Over(p) == hst[p] \in {"held", "out", "panic"}

\* The turns of p so far: item i of Retries::new(MaxTries, d) is MaxTries - i, no
\* more than MaxTries turns were taken, every turn but the last ended busy, in
\* would-block or without a device node, an attempt runs only in an open turn,
\* and the out-of-retries error comes when all MaxTries turns have so ended.
Turns(p) ==
    LET n == Len(tried[p])
    IN /\ n = MaxTries - retries[p] /\ n <= MaxTries
       /\ \A i \in 1..n : tried[p][i].item = MaxTries - i
       /\ \A i \in 1..(n - 1) : tried[p][i].end \in Retryable
       /\ hst[p] \in {"free", "built"} => n > 0 /\ tried[p][n].end = "open"
       /\ hst[p] = "held" => tried[p][n].end = "ok"
       /\ hst[p] = "out" =>
             /\ n = MaxTries /\ retries[p] = 0
             /\ \A i \in 1..n : tried[p][i].end \in Retryable

=============================================================================
